---------------------------- MODULE Spec2Model ----------------------------
(***************************************************************************)
(* A model of scripts/update_template.py of the pptx-template-updater      *)
(* skill: update_table_cell, update_shape_text and the batch loop of       *)
(* apply_updates, over an abstract python-pptx document tree.              *)
(*                                                                         *)
(* The document tree                                                       *)
(*   presentation = sequence of slides, slide = sequence of shapes         *)
(*   shape = [kind, paras, rows]                                           *)
(*       kind "text"  : a shape with a text frame (paras = its paragraphs) *)
(*       kind "table" : a graphic frame holding a table: no text frame,    *)
(*                      rows[r][c] = the paragraphs of cell (r-1, c-1)     *)
(*       kind "other" : a shape with neither (a picture, a connector)      *)
(*   paragraph = [runs, level, font]  (font = the paragraph's defRPr)      *)
(*   run = [text, font]                                                    *)
(*   font = [size, name, bold, italic, underline, color], every field a    *)
(*       string, "None" when the property is not set                       *)
(* A text is a sequence of characters; NL is the line break "\n".          *)
(*                                                                         *)
(* What python-pptx does is modelled where the script relies on it:        *)
(*   - a text frame always holds at least one paragraph;                   *)
(*   - TextFrame.text joins the paragraphs' texts with "\n", a             *)
(*     paragraph's text is the concatenation of its runs' texts;           *)
(*   - _Paragraph.clear() removes the runs and keeps the paragraph's       *)
(*     properties (level, defRPr); TextFrame.clear() removes every         *)
(*     paragraph but the first and clears that one;                        *)
(*   - table.rows[i] and row.cells[j] raise IndexError unless              *)
(*     0 <= i < len: negative indices do not wrap;                         *)
(*   - the setter of ColorFormat.rgb raises ValueError unless it is given  *)
(*     an RGBColor; the script hands it a ColorFormat at lines 103, 256;   *)
(*   - comparing None with an integer raises TypeError.                    *)
(***************************************************************************)
EXTENDS Integers, Sequences, FiniteSets, TLC

NL == "\n"

None == "None"

\* ------------------------------------------------------------------ texts

RECURSIVE Concat(_)
\* "".join(texts)
Concat(texts) ==
    IF texts = <<>> THEN <<>> ELSE Head(texts) \o Concat(Tail(texts))

RECURSIVE Join(_)
\* "\n".join(texts)
Join(texts) ==
    IF texts = <<>> THEN <<>>
    ELSE IF Len(texts) = 1 THEN texts[1]
    ELSE texts[1] \o <<NL>> \o Join(Tail(texts))

RECURSIVE SplitFrom(_, _)
\* text.split("\n"), cur being the line read so far
SplitFrom(text, cur) ==
    IF text = <<>> THEN <<cur>>
    ELSE IF Head(text) = NL THEN <<cur>> \o SplitFrom(Tail(text), <<>>)
    ELSE SplitFrom(Tail(text), Append(cur, Head(text)))

Split(text) == SplitFrom(text, <<>>)

HasNewline(text) == \E k \in 1..Len(text) : text[k] = NL

\* paragraph.text
ParaText(p) == Concat([k \in 1..Len(p.runs) |-> p.runs[k].text])

\* text_frame.text
FrameText(paras) == Join([k \in 1..Len(paras) |-> ParaText(paras[k])])

\* ------------------------------------------------------------------ fonts

\* The font of a run add_run() has just made, or of a paragraph without defRPr.
NoFont ==
    [size |-> None, name |-> None, bold |-> None, italic |-> None,
     underline |-> None, color |-> None]

\* Python's truth value of a captured size or typeface: None, a zero length
\* and the empty string are false.
Truthy(v) == v \notin {None, "0", ""}

\* The colours of the documents: explicit RGB values and theme colours.
RgbColors == {"rgb:FF0000"}

ThemeColors == {"theme:ACCENT_1"}

\* font.color.type: None for a run without a colour.
ColorType(c) ==
    IF c = None THEN None ELSE IF c \in RgbColors THEN "RGB" ELSE "SCHEME"

\* The formatting captured from a text frame's paragraphs before the update:
\* each of size, name, bold, italic, underline from the first run of the first
\* paragraph, else from the paragraph's font; the colour from the run only.
CaptureFormatting(paras) ==
    IF paras = <<>> THEN NoFont
    ELSE LET first_para == paras[1]
             run_font == IF first_para.runs # <<>>
                         THEN first_para.runs[1].font ELSE NoFont
             Field(f) == IF run_font[f] = None
                         THEN first_para.font[f] ELSE run_font[f]
         IN [size |-> Field("size"), name |-> Field("name"),
             bold |-> Field("bold"), italic |-> Field("italic"),
             underline |-> Field("underline"),
             color |-> IF ColorType(run_font.color) # None
                       THEN run_font.color ELSE None]

\* The font of the new run once size, name, bold, italic and underline have
\* been applied (the colour comes after them).
ApplyFormatting(original) ==
    [size |-> IF Truthy(original.size) THEN original.size ELSE None,
     name |-> IF Truthy(original.name) THEN original.name ELSE None,
     bold |-> original.bold,
     italic |-> original.italic,
     underline |-> original.underline,
     color |-> None]

\* Bullet-preserving mode copies the colour by value inside try/except: an
\* RGB colour by its rgb, a theme colour by its theme_color.
CopyColor(font, original_font_color) ==
    IF original_font_color = None THEN font
    ELSE [font EXCEPT !.color = original_font_color]

\* Single-paragraph mode and the table cell assign the captured ColorFormat
\* object to run.font.color.rgb, whose setter raises ValueError for anything
\* but an RGBColor: the assignment raises whenever a colour was captured.
ColorAssignRaises(original_font_color) == original_font_color # None

\* ------------------------------------------------------ update_shape_text

\* The run both modes put in place of a paragraph's content: the text, with
\* the captured size, name, bold, italic and underline applied.
NewRun(text, original) == [text |-> text, font |-> ApplyFormatting(original)]

\* BulletParagraphs without the loop that removes the paragraphs beyond the
\* first: the old ones stay between the first and the new ones.
BulletParagraphsKeepOld(paras, new_text, original) ==
    LET lines == Split(new_text)
        Run(k) == [text |-> lines[k],
                   font |-> CopyColor(ApplyFormatting(original), original.color)]
        first == [paras[1] EXCEPT !.runs = <<Run(1)>>]
    IN <<first>> \o Tail(paras) \o
       [k \in 1..(Len(lines) - 1) |->
           [runs |-> <<Run(k + 1)>>, level |-> first.level, font |-> NoFont]]

\* Bullet-preserving mode. Every paragraph beyond the first is removed, the
\* first is cleared (its level and font stay) and gets one run with lines[0];
\* one paragraph is appended per remaining line, with one run and the level of
\* the first paragraph. A failure to copy the colour is swallowed.
BulletParagraphs(paras, new_text, original) ==
    LET lines == Split(new_text)
        Run(k) == [text |-> lines[k],
                   font |-> CopyColor(ApplyFormatting(original), original.color)]
        first == [paras[1] EXCEPT !.runs = <<Run(1)>>]
    IN [k \in 1..Len(lines) |->
           IF k = 1 THEN first
           ELSE [runs |-> <<Run(k)>>, level |-> first.level, font |-> NoFont]]

\* SimpleParagraphs with text_frame.clear() for first_para.clear(): the
\* paragraphs beyond the first are removed.
SimpleParagraphsTruncate(paras, new_text, original) ==
    <<[paras[1] EXCEPT !.runs = <<NewRun(new_text, original)>>]>>

\* SimpleParagraphs without first_para.clear(): the new run is added after
\* the runs the paragraph holds.
SimpleParagraphsAppend(paras, new_text, original) ==
    [paras EXCEPT ![1].runs = @ \o <<NewRun(new_text, original)>>]

\* Single-paragraph mode. The first paragraph is cleared and gets one run with
\* the whole new_text; the other paragraphs are not touched.
SimpleParagraphs(paras, new_text, original) ==
    [paras EXCEPT ![1].runs = <<NewRun(new_text, original)>>]

\* The overflow heuristic: len(new_text) > original_length * 1.5.
Overflows(new_length, original_length) == 2 * new_length > 3 * original_length

\* update_shape_text(shape, new_text, preserve_bullets): the result dict, the
\* shape as the call leaves it, and whether the call raised (the ValueError of
\* the colour assignment in single-paragraph mode, which nothing catches).
update_shape_text(shape, new_text, preserve_bullets) ==
    IF shape.kind # "text"
    THEN [success |-> FALSE, raised |-> FALSE, warnings |-> <<>>,
          error |-> "Shape has no text frame", shape |-> shape]
    ELSE LET original_length == Len(FrameText(shape.paras))
             warnings == IF Overflows(Len(new_text), original_length)
                         THEN <<[new_length |-> Len(new_text),
                                 original_length |-> original_length]>>
                         ELSE <<>>
             original == CaptureFormatting(shape.paras)
             bullets == preserve_bullets /\ HasNewline(new_text)
             paras == IF bullets
                      THEN BulletParagraphs(shape.paras, new_text, original)
                      ELSE SimpleParagraphs(shape.paras, new_text, original)
         IN [success |-> TRUE,
             raised |-> ~bullets /\ ColorAssignRaises(original.color),
             warnings |-> warnings,
             error |-> None,
             shape |-> [shape EXCEPT !.paras = paras]]

\* ------------------------------------------------------ update_table_cell

\* table.rows[row].cells[col] exists: python-pptx raises IndexError for an
\* index below 0 or not below the length.
CellInRange(rows, row, col) ==
    /\ 0 <= row /\ row < Len(rows)
    /\ 0 <= col /\ col < Len(rows[row + 1])

\* CellParagraphs with paragraphs[0].clear() for text_frame.clear(): the
\* cell's paragraphs beyond the first stay.
CellParagraphsKeepRest(paras, new_text, original) ==
    [paras EXCEPT ![1].runs = <<NewRun(new_text, original)>>]

\* The cell's paragraphs after text_frame.clear() and the new run: one
\* paragraph, the first one, holding one run.
CellParagraphs(paras, new_text, original) ==
    <<[paras[1] EXCEPT !.runs = <<NewRun(new_text, original)>>]>>

\* update_table_cell(table, row, col, new_text): the result dict and the
\* table's rows as the call leaves them. Every exception is caught and turned
\* into a failed result; the one of the colour assignment comes after the
\* cell has been rewritten.
update_table_cell(rows, row, col, new_text) ==
    IF ~(0 <= row /\ row < Len(rows))
    THEN [success |-> FALSE, error |-> "row index out of range",
          cell |-> <<row, col>>, rows |-> rows]
    ELSE IF ~CellInRange(rows, row, col)
    THEN [success |-> FALSE, error |-> "cell index out of range",
          cell |-> <<row, col>>, rows |-> rows]
    ELSE LET paras == rows[row + 1][col + 1]
             original == CaptureFormatting(paras)
             after == [rows EXCEPT ![row + 1][col + 1] =
                          CellParagraphs(paras, new_text, original)]
         IN IF ColorAssignRaises(original.color)
            THEN [success |-> FALSE,
                  error |-> "assigned value must be type RGBColor",
                  cell |-> <<row, col>>, rows |-> after]
            ELSE [success |-> TRUE, error |-> None,
                  cell |-> <<row, col>>, rows |-> after]

\* ---------------------------------------------------------- apply_updates

VARIABLES
    prs,        \* the open presentation: the document tree
    updates,    \* updates_data["updates"], the batch
    pos,        \* the instruction the loop is at (Len(updates) + 1 past the end)
    cell_pos,   \* within a table fan-out, the entry of table_cells it is at
    results,    \* [updates_applied, errors, warnings]
    status,     \* "running", "returned" or "raised" (an exception left the call)
    saved,      \* how many times prs.save(output_path) has run
    output,     \* the document written to output_path, <<>> while there is none
    pre         \* history: prs, results, pos, cell_pos before the last step

vars == <<prs, updates, pos, cell_pos, results, status, saved, output, pre>>

\* The locals of the loop body (lines 279-283). A key named in "missing" is
\* absent from the instruction: update.get() gives None for it.
update == updates[pos]

slide_num == update.slide

shape_idx == update.shape

SlideMissing(u) == "slide" \in u.missing

ShapeMissing(u) == "shape" \in u.missing

\* Line 286 passes: the slide number is an integer inside [1, len(prs.slides)].
SlideValid(doc, u) ==
    ~SlideMissing(u) /\ ~(u.slide < 1 \/ u.slide > Len(doc))

\* Line 295 passes as well.
ShapeValid(doc, u) ==
    /\ SlideValid(doc, u)
    /\ ~ShapeMissing(u)
    /\ ~(u.shape < 1 \/ u.shape > Len(doc[u.slide]))

\* IsTableUpdate with the test of shape.shape_type left out: table_cells
\* alone sends the instruction to the cells.
IsTableUpdateAnyShape(doc, u) ==
    /\ ShapeValid(doc, u)
    /\ u.table_cells # <<>>

\* Line 305: the instruction fans out over the cells of a table.
IsTableUpdate(doc, u) ==
    /\ ShapeValid(doc, u)
    /\ u.table_cells # <<>>
    /\ doc[u.slide][u.shape].kind = "table"

Running == status = "running" /\ pos <= Len(updates)

Remember ==
    pre' = [prs |-> prs, results |-> results, pos |-> pos, cell_pos |-> cell_pos]

\* InvalidSlide without the append of lines 287-289: the instruction is
\* skipped and nothing is recorded.
InvalidSlideSilent ==
    /\ Running
    /\ ~SlideMissing(update)
    /\ slide_num < 1 \/ slide_num > Len(prs)
    /\ pos' = pos + 1
    /\ Remember
    /\ UNCHANGED <<prs, updates, cell_pos, results, status, saved, output>>

\* Lines 286-290: an integer slide number out of range is recorded and the
\* loop continues with the next instruction.
InvalidSlide ==
    /\ Running
    /\ ~SlideMissing(update)
    /\ slide_num < 1 \/ slide_num > Len(prs)
    /\ results' = [results EXCEPT !.errors = Append(@,
           [kind |-> "Invalid slide number", slide |-> slide_num, shape |-> 0,
            cell |-> <<>>, count |-> Len(prs), msg |-> None])]
    /\ pos' = pos + 1
    /\ Remember
    /\ UNCHANGED <<prs, updates, cell_pos, status, saved, output>>

\* InvalidShape with break for continue: the error is recorded and the loop
\* is left.
InvalidShapeBreaks ==
    /\ Running
    /\ SlideValid(prs, update)
    /\ ~ShapeMissing(update)
    /\ shape_idx < 1 \/ shape_idx > Len(prs[slide_num])
    /\ results' = [results EXCEPT !.errors = Append(@,
           [kind |-> "Invalid shape index", slide |-> slide_num,
            shape |-> shape_idx, cell |-> <<>>,
            count |-> Len(prs[slide_num]), msg |-> None])]
    /\ pos' = Len(updates) + 1
    /\ Remember
    /\ UNCHANGED <<prs, updates, cell_pos, status, saved, output>>

\* Lines 292-300: the same for the shape index on the resolved slide.
InvalidShape ==
    /\ Running
    /\ SlideValid(prs, update)
    /\ ~ShapeMissing(update)
    /\ shape_idx < 1 \/ shape_idx > Len(prs[slide_num])
    /\ results' = [results EXCEPT !.errors = Append(@,
           [kind |-> "Invalid shape index", slide |-> slide_num,
            shape |-> shape_idx, cell |-> <<>>,
            count |-> Len(prs[slide_num]), msg |-> None])]
    /\ pos' = pos + 1
    /\ Remember
    /\ UNCHANGED <<prs, updates, cell_pos, status, saved, output>>

\* Lines 286 and 295 compare None with 1 when the key is absent: TypeError,
\* which apply_updates does not catch. The call ends there, before the save.
MissingIndex ==
    /\ Running
    /\ \/ SlideMissing(update)
       \/ SlideValid(prs, update) /\ ShapeMissing(update)
    /\ status' = "raised"
    /\ Remember
    /\ UNCHANGED <<prs, updates, pos, cell_pos, results, saved, output>>

\* Lines 308-320: one entry of table_cells. The loop moves to the next
\* instruction after the last entry.
TableCellUpdate ==
    /\ Running
    /\ IsTableUpdate(prs, update)
    /\ LET cell_update == update.table_cells[cell_pos]
           shape == prs[slide_num][shape_idx]
           cell_result == update_table_cell(shape.rows, cell_update.row,
                                            cell_update.column, cell_update.text)
       IN /\ prs' = [prs EXCEPT ![slide_num][shape_idx].rows = cell_result.rows]
          /\ results' =
                IF cell_result.success
                THEN [results EXCEPT !.updates_applied = @ + 1]
                ELSE [results EXCEPT !.errors = Append(@,
                         [kind |-> "Cell", slide |-> slide_num,
                          shape |-> shape_idx, cell |-> cell_result.cell,
                          count |-> 0, msg |-> cell_result.error])]
    /\ IF cell_pos < Len(update.table_cells)
       THEN cell_pos' = cell_pos + 1 /\ pos' = pos
       ELSE cell_pos' = 1 /\ pos' = pos + 1
    /\ Remember
    /\ UNCHANGED <<updates, status, saved, output>>

\* Lines 322-340: the whole-shape text update and the merge of its result.
\* When update_shape_text raises, the exception leaves apply_updates with the
\* shape as the call left it.
ShapeTextUpdate ==
    /\ Running
    /\ ShapeValid(prs, update)
    /\ ~IsTableUpdate(prs, update)
    /\ LET update_result == update_shape_text(prs[slide_num][shape_idx],
                                update.text, update.preserve_bullets)
       IN /\ prs' = [prs EXCEPT ![slide_num][shape_idx] = update_result.shape]
          /\ IF update_result.raised
             THEN /\ status' = "raised"
                  /\ UNCHANGED <<pos, results>>
             ELSE /\ status' = status
                  /\ pos' = pos + 1
                  /\ results' =
                        IF update_result.success
                        THEN [results EXCEPT
                                 !.updates_applied = @ + 1,
                                 !.warnings = @ \o
                                     [k \in 1..Len(update_result.warnings) |->
                                         [slide |-> slide_num,
                                          shape |-> shape_idx,
                                          warning |-> update_result.warnings[k]]]]
                        ELSE [results EXCEPT !.errors = Append(@,
                                 [kind |-> "Shape", slide |-> slide_num,
                                  shape |-> shape_idx, cell |-> <<>>,
                                  count |-> 0, msg |-> update_result.error])]
    /\ Remember
    /\ UNCHANGED <<updates, cell_pos, saved, output>>

\* Save as the finally clause of the loop: it also runs when an exception
\* is on its way out.
SaveInFinally ==
    /\ \/ status = "running" /\ pos > Len(updates)
       \/ status = "raised" /\ saved = 0
    /\ saved' = saved + 1
    /\ output' = <<prs>>
    /\ status' = IF status = "raised" THEN "raised" ELSE "returned"
    /\ Remember
    /\ UNCHANGED <<prs, updates, pos, cell_pos, results>>

\* Lines 342-346: after the loop the presentation is saved and the results
\* are returned.
Save ==
    /\ status = "running"
    /\ pos > Len(updates)
    /\ saved' = saved + 1
    /\ output' = <<prs>>
    /\ status' = "returned"
    /\ Remember
    /\ UNCHANGED <<prs, updates, pos, cell_pos, results>>

Next ==
    \/ InvalidSlide
    \/ InvalidShape
    \/ MissingIndex
    \/ TableCellUpdate
    \/ ShapeTextUpdate
    \/ Save

\* ------------------------------------------------------------ the inputs

\* Bounds of the inputs.
MaxUpdates == 2

MaxTextLen == 3

MaxParas == 2

MaxRuns == 2

MaxCells == 2

TextShape(paras) == [kind |-> "text", paras |-> paras, rows |-> <<>>]

TableShape(rows) == [kind |-> "table", paras |-> <<>>, rows |-> rows]

OtherShape == [kind |-> "other", paras |-> <<>>, rows |-> <<>>]

Instruction(slide, shape, text, preserve_bullets, table_cells, missing) ==
    [slide |-> slide, shape |-> shape, text |-> text,
     preserve_bullets |-> preserve_bullets, table_cells |-> table_cells,
     missing |-> missing]

\* Every sequence over S of a length in lo..hi.
SeqsOf(S, lo, hi) == UNION {[1..n -> S] : n \in lo..hi}

\* The texts an instruction carries: "x" and line breaks.
Texts == SeqsOf({"x", NL}, 0, MaxTextLen)

\* The fonts of a document's first run: with or without a colour, with a
\* typeface, an empty typeface or none.
RunFonts ==
    {[size |-> "12", name |-> nm, bold |-> "True", italic |-> None,
      underline |-> None, color |-> col] :
        nm \in {None, "", "Arial"},
        col \in {None} \cup RgbColors \cup ThemeColors}

\* The fonts of a document's paragraphs (their defRPr).
ParaFonts ==
    {NoFont, [NoFont EXCEPT !.size = "14", !.name = "Calibri", !.bold = "False"]}

\* A first paragraph of n runs "a", "b", ...: the first run in font rf.
FirstPara(n, rf, pf, level) ==
    [runs |-> [k \in 1..n |->
                  [text |-> <<IF k = 1 THEN "a" ELSE "b">>,
                   font |-> IF k = 1 THEN rf ELSE NoFont]],
     level |-> level, font |-> pf]

\* A paragraph after the first: one run "c", at level 2.
TailPara == [runs |-> <<[text |-> <<"c">>, font |-> NoFont]>>,
             level |-> 2, font |-> NoFont]

\* The text frames of the documents: 1..MaxParas paragraphs, the first of
\* 0..MaxRuns runs.
Frames ==
    {[k \in 1..np |-> IF k = 1 THEN FirstPara(n, rf, pf, level) ELSE TailPara] :
        np \in 1..MaxParas, n \in 0..MaxRuns, rf \in RunFonts,
        pf \in ParaFonts, level \in {0, 1}}

\* One text shape on one slide, and one or two applications of an instruction
\* to it: any text in either mode, or the shape's own text in the mode that
\* matches its structure.
ShapeInputs ==
    {<<doc, batch>> :
        doc \in {<< <<TextShape(f)>> >> : f \in Frames},
        batch \in {<<u>> : u \in {Instruction(1, 1, t, pb, <<>>, {}) :
                                     t \in Texts, pb \in BOOLEAN}}}
    \cup
    {<< << <<TextShape(f)>> >>,
        <<Instruction(1, 1, FrameText(f), Len(f) > 1, <<>>, {})>> >> :
        f \in Frames}

Twice(input) == <<input[1], input[2] \o input[2]>>

\* The cells of the table documents.
Cells ==
    {<<FirstPara(0, NoFont, NoFont, 0)>>,
     <<FirstPara(1, NoFont, NoFont, 0)>>,
     <<FirstPara(1, [NoFont EXCEPT !.color = "rgb:FF0000"], NoFont, 0)>>,
     <<FirstPara(1, NoFont, NoFont, 1), TailPara>>}

CellUpdates ==
    {[row |-> r, column |-> col, text |-> <<"x">>] :
        r \in {-1, 0, 1}, col \in {0, 1, 2}}

\* One table of one row and two columns on one slide, and one instruction
\* with 1..MaxCells entries of table_cells.
TableInputs ==
    {<< << <<TableShape(<< <<c1, c2>> >>)>> >>,
        <<Instruction(1, 1, <<>>, TRUE, cells, {})>> >> :
        c1 \in Cells, c2 \in Cells, cells \in SeqsOf(CellUpdates, 1, MaxCells)}

\* Two slides: a text shape and a table on the first, a picture on the second.
DispatchDocs ==
    {<< <<TextShape(<<FirstPara(1, rf, NoFont, 0)>>),
          TableShape(<< <<c1, c1>> >>)>>,
        <<OtherShape>> >> :
        rf \in {NoFont, [NoFont EXCEPT !.color = "rgb:FF0000"]},
        c1 \in {<<FirstPara(1, NoFont, NoFont, 0)>>}}

\* The instructions of the dispatch batches: indices out of range, absent
\* keys, text updates of each shape, table updates.
DispatchUpdates ==
    {Instruction(s, 1, <<"x">>, TRUE, <<>>, {}) : s \in {-1, 0, 3}}
    \cup {Instruction(1, h, <<"x">>, TRUE, <<>>, {}) : h \in {-1, 0, 3}}
    \cup {Instruction(2, 2, <<"x">>, TRUE, <<>>, {}),
          Instruction(0, 1, <<"x">>, TRUE, <<>>, {"slide"}),
          Instruction(1, 0, <<"x">>, TRUE, <<>>, {"shape"}),
          Instruction(0, 0, <<"x">>, TRUE, <<>>, {"shape"})}
    \cup {Instruction(t[1], t[2], txt, TRUE, <<>>, {}) :
             t \in {<<1, 1>>, <<1, 2>>, <<2, 1>>},
             txt \in {<<"x">>, <<"x", NL, "x", "x">>}}
    \cup {Instruction(1, 2, <<>>, TRUE, cells, {}) :
             cells \in {<<[row |-> 0, column |-> 1, text |-> <<"x">>]>>,
                        <<[row |-> 0, column |-> 2, text |-> <<"x">>],
                          [row |-> 0, column |-> 0, text |-> <<"x">>]>>}}
    \cup {Instruction(1, 1, <<"x">>, TRUE,
                      <<[row |-> 0, column |-> 0, text |-> <<"x">>]>>, {})}

DispatchInputs ==
    {<<doc, batch>> :
        doc \in DispatchDocs, batch \in SeqsOf(DispatchUpdates, 0, MaxUpdates)}

FontFields == {"size", "name", "bold", "italic", "underline", "color"}

\* The font that sets the fields of S as full does and no other.
FontSetting(S, full) ==
    [size |-> IF "size" \in S THEN full.size ELSE None,
     name |-> IF "name" \in S THEN full.name ELSE None,
     bold |-> IF "bold" \in S THEN full.bold ELSE None,
     italic |-> IF "italic" \in S THEN full.italic ELSE None,
     underline |-> IF "underline" \in S THEN full.underline ELSE None,
     color |-> IF "color" \in S THEN full.color ELSE None]

\* A run font and a paragraph font that set every field, to different values.
FullRunFont ==
    [size |-> "12", name |-> "Arial", bold |-> "True", italic |-> "True",
     underline |-> "True", color |-> "rgb:FF0000"]

FullParaFont ==
    [size |-> "14", name |-> "Calibri", bold |-> "False", italic |-> "False",
     underline |-> "False", color |-> "theme:ACCENT_1"]

\* Text regions of one paragraph with no run or one: the run sets any subset
\* of the font fields and the paragraph any subset.
FontRegions ==
    {<<FirstPara(n, FontSetting(S, FullRunFont), FontSetting(P, FullParaFont), 0)>> :
        n \in {0, 1}, S \in SUBSET FontFields, P \in SUBSET FontFields}

\* Such a region as a text shape or as the cell of a table, and one update.
FontInputs ==
    {<< << <<TextShape(region)>> >>,
        <<Instruction(1, 1, <<"x">>, FALSE, <<>>, {})>> >> :
        region \in FontRegions}
    \cup
    {<< << <<TableShape(<< <<region>> >>)>> >>,
        <<Instruction(1, 1, <<>>, TRUE,
                      <<[row |-> 0, column |-> 0, text |-> <<"x">>]>>, {})>> >> :
        region \in FontRegions}

Inputs ==
    ShapeInputs \cup {Twice(input) : input \in ShapeInputs}
    \cup TableInputs \cup DispatchInputs \cup FontInputs

\* apply_updates(pptx_path, updates_data, output_path) has opened the
\* presentation and made the empty results (lines 275-276).
Init ==
    \E input \in Inputs :
        /\ prs = input[1]
        /\ updates = input[2]
        /\ pos = 1
        /\ cell_pos = 1
        /\ results = [updates_applied |-> 0, errors |-> <<>>, warnings |-> <<>>]
        /\ status = "running"
        /\ saved = 0
        /\ output = <<>>
        /\ pre = [prs |-> input[1],
                  results |-> [updates_applied |-> 0, errors |-> <<>>,
                               warnings |-> <<>>],
                  pos |-> 0, cell_pos |-> 1]

Spec == Init /\ [][Next]_vars

\* ------------------------------------------------------------ properties
\* A step is judged in the state it leads to: pre holds the presentation, the
\* results and the loop position it started from.

\* The last step processed an instruction (or one cell entry of one).
Stepped == pre.pos \in 1..Len(updates)

\* That instruction, and what it resolves to in the document it met.
last == updates[pre.pos]

LastShape == pre.prs[last.slide][last.shape]

NowShape == prs[last.slide][last.shape]

\* The slide or the shape index is an integer out of range.
OutOfRange(doc, u) ==
    /\ ~SlideMissing(u)
    /\ \/ u.slide \notin 1..Len(doc)
       \/ ~ShapeMissing(u) /\ u.shape \notin 1..Len(doc[u.slide])

\* The last step ran update_shape_text on a shape with a text frame.
LastTextUpdate ==
    /\ Stepped
    /\ ShapeValid(pre.prs, last)
    /\ ~IsTableUpdate(pre.prs, last)
    /\ LastShape.kind = "text"

\* The last step ran update_table_cell for the entry LastCell.
LastCellUpdate == Stepped /\ IsTableUpdate(pre.prs, last)

LastCell == last.table_cells[pre.cell_pos]

Applied == results.updates_applied - pre.results.updates_applied

NewErrors == Len(results.errors) - Len(pre.results.errors)

NewWarnings == Len(results.warnings) - Len(pre.results.warnings)

IsIndexError(e) == e.kind \in {"Invalid slide number", "Invalid shape index"}

\* C1: an instruction whose slide or shape index is an integer out of range
\* (0 and negative values included) appends exactly one error entry, which
\* names the rejected index, leaves updates_applied, the warnings and the
\* document as they were, and the loop goes on with the next instruction; at
\* every point of the run there are as many index errors as out-of-range
\* instructions processed so far, so none is dropped and none stops the run.
C1_OutOfRangeIsolated ==
    /\ (Stepped /\ OutOfRange(pre.prs, last)) =>
          /\ NewErrors = 1
          /\ SubSeq(results.errors, 1, Len(pre.results.errors)) = pre.results.errors
          /\ LET e == results.errors[Len(results.errors)]
             IN /\ IsIndexError(e)
                /\ e.slide = last.slide
                /\ e.kind = "Invalid shape index" => e.shape = last.shape
          /\ Applied = 0
          /\ NewWarnings = 0
          /\ prs = pre.prs
          /\ status = "running"
          /\ pos = pre.pos + 1
    /\ LET IndexErrors == SelectSeq(results.errors, IsIndexError)
       IN Len(IndexErrors) =
             Cardinality({k \in 1..(pos - 1) : OutOfRange(prs, updates[k])})

\* C1's case: a run that returned after a first instruction with shape index
\* 0 or below, rejected with one error, and a second one that was applied.
C1_Witness ==
    /\ status = "returned"
    /\ Len(updates) = 2
    /\ OutOfRange(prs, updates[1]) /\ updates[1].shape < 1
    /\ Len(results.errors) = 1
    /\ results.updates_applied = 1

\* C2: an instruction whose slide or shape key is missing is recovered
\* locally: one entry in errors, the loop goes on, the call does not raise.
C2_MalformedRecovered ==
    (Stepped /\ (SlideMissing(last) \/ ShapeMissing(last))) =>
        /\ status = "running"
        /\ NewErrors = 1
        /\ pos = pre.pos + 1

\* C3: for an instruction with in-range indices, updates_applied grows by
\* exactly 1 for a whole-shape text update (of a shape that has a text frame)
\* and, in a table fan-out, by 1 for each entry whose (row, column) lies
\* inside the table and by 0 for each entry that does not; no other step
\* changes it.
C3_AppliedCount ==
    /\ LastTextUpdate => Applied = 1
    /\ LastCellUpdate =>
          Applied = IF CellInRange(LastShape.rows, LastCell.row, LastCell.column)
                    THEN 1 ELSE 0
    /\ (~LastTextUpdate /\ ~LastCellUpdate) => Applied = 0

\* C4: within a table fan-out every entry is processed on its own: an entry
\* out of range gives one error naming its (row, col), does not raise and
\* leaves the table alone; an entry in range puts its text in its cell and is
\* counted in updates_applied, whatever its siblings were.
C4_CellIsolation ==
    LastCellUpdate =>
        /\ status = "running"
        /\ IF CellInRange(LastShape.rows, LastCell.row, LastCell.column)
           THEN /\ FrameText(NowShape.rows[LastCell.row + 1][LastCell.column + 1])
                      = LastCell.text
                /\ Applied = 1
                /\ NewErrors = 0
           ELSE /\ NewErrors = 1
                /\ results.errors[Len(results.errors)].cell
                      = <<LastCell.row, LastCell.column>>
                /\ Applied = 0
                /\ prs = pre.prs

\* C5: the document is saved at most once, and only after the last
\* instruction of the batch; there is no save while the loop runs, and a run
\* an exception ends has saved nothing and written no output.
C5_SavedOnceAtEnd ==
    /\ saved <= 1
    /\ saved = 1 <=> status = "returned"
    /\ saved = 1 => pos = Len(updates) + 1 /\ output = <<prs>>
    /\ saved = 0 => output = <<>>

\* C5's case: an exception ended the run after an earlier instruction had
\* changed the document; nothing was saved.
C5_Witness ==
    /\ status = "raised"
    /\ results.updates_applied >= 1
    /\ saved = 0

NumNewlines(text) == Cardinality({k \in 1..Len(text) : text[k] = NL})

\* C6: in bullet-preserving mode (preserve_bullets and a line break in
\* new_text) on a text shape of any number of paragraphs, the shape ends
\* with one paragraph per line of new_text (one more than its line breaks),
\* each of exactly one run, the runs' texts being the lines in order (none
\* holds a line break and joined by line breaks they give new_text), at the
\* level of the first paragraph; the update is applied.
C6_BulletParagraphs ==
    (LastTextUpdate /\ last.preserve_bullets /\ HasNewline(last.text)) =>
        LET paras == NowShape.paras
        IN /\ Len(paras) = NumNewlines(last.text) + 1
           /\ \A k \in 1..Len(paras) :
                 /\ Len(paras[k].runs) = 1
                 /\ ~HasNewline(paras[k].runs[1].text)
                 /\ paras[k].level = paras[1].level
           /\ FrameText(paras) = last.text
           /\ paras[1].level = LastShape.paras[1].level
           /\ status = "running"
           /\ Applied = 1

\* C6's case: a shape of two paragraphs rewritten into three lines.
C6_Witness ==
    /\ LastTextUpdate /\ last.preserve_bullets /\ HasNewline(last.text)
    /\ Len(LastShape.paras) = 2
    /\ Len(NowShape.paras) = 3
    /\ NowShape.paras[1].level = 1

\* C7: when the same instruction is applied to a text shape twice in a row,
\* the text of the shape after the second application is the text after the
\* first: the second replaces, it does not append.
C7_Idempotent ==
    (LastTextUpdate /\ pre.pos >= 2 /\ updates[pre.pos - 1] = last) =>
        FrameText(NowShape.paras) = FrameText(LastShape.paras)

\* C7's case: the second of two identical single-paragraph updates, with a
\* text, of a shape of two paragraphs has been applied.
C7_Witness ==
    /\ LastTextUpdate /\ pre.pos = 2 /\ updates[1] = last
    /\ ~last.preserve_bullets /\ Len(last.text) = 2
    /\ Len(NowShape.paras) = 2
    /\ results.updates_applied = 2

\* C8: an instruction whose new_text is the shape's text and whose
\* preserve_bullets is true exactly when the shape has several paragraphs
\* completes, and leaves the shape's text and the formatting captured from it
\* as they were.
C8_RoundTrip ==
    (/\ LastTextUpdate
     /\ last.text = FrameText(LastShape.paras)
     /\ last.preserve_bullets = (Len(LastShape.paras) > 1)) =>
        /\ status = "running"
        /\ Applied = 1
        /\ FrameText(NowShape.paras) = FrameText(LastShape.paras)
        /\ CaptureFormatting(NowShape.paras) = CaptureFormatting(LastShape.paras)

\* C9: a whole-shape text update gives exactly one overflow warning when
\* 2 * len(new_text) > 3 * original_length and none otherwise, and the
\* warning is advisory: the update is applied and counted, and nothing goes
\* to errors.
C9_OverflowWarning ==
    LastTextUpdate =>
        /\ NewWarnings =
              IF 2 * Len(last.text) > 3 * Len(FrameText(LastShape.paras))
              THEN 1 ELSE 0
        /\ status = "running"
        /\ Applied = 1
        /\ NewErrors = 0

\* C10: when the captured colour cannot be reapplied to the new run, the
\* update goes through all the same, in the text shape (either mode) and in
\* the table cell: it does not raise, nothing is added to errors, the new
\* text is in place and the update is counted.
C10_ColorFailureSilent ==
    /\ (LastTextUpdate /\ CaptureFormatting(LastShape.paras).color # None) =>
          /\ status = "running"
          /\ NewErrors = 0
          /\ Applied = 1
    /\ (/\ LastCellUpdate
        /\ CellInRange(LastShape.rows, LastCell.row, LastCell.column)
        /\ CaptureFormatting(
              LastShape.rows[LastCell.row + 1][LastCell.column + 1]).color # None) =>
          /\ status = "running"
          /\ NewErrors = 0
          /\ Applied = 1
          /\ FrameText(NowShape.rows[LastCell.row + 1][LastCell.column + 1])
                = LastCell.text

\* C11: in single-paragraph mode of a whole-shape update (preserve_bullets
\* false, or no line break in new_text) only the first paragraph changes: it
\* ends with exactly one run, which holds the whole new_text, and keeps its
\* level; the shape has as many paragraphs as before and every paragraph
\* beyond the first (text, runs, level) is the one it was.
C11_SingleParagraphFrame ==
    (LastTextUpdate /\ ~(last.preserve_bullets /\ HasNewline(last.text))) =>
        LET before == LastShape.paras
            after == NowShape.paras
        IN /\ Len(after) = Len(before)
           /\ Len(after[1].runs) = 1
           /\ after[1].runs[1].text = last.text
           /\ after[1].level = before[1].level
           /\ \A k \in 2..Len(before) : after[k] = before[k]

\* C11's case: a text with a line break put, with preserve_bullets false,
\* into a shape of two paragraphs whose first held two runs.
C11_Witness ==
    /\ LastTextUpdate /\ ~last.preserve_bullets /\ HasNewline(last.text)
    /\ Len(LastShape.paras) = 2
    /\ Len(LastShape.paras[1].runs) = 2
    /\ status = "running"

\* The last step's entry lies inside the table; the cell before and after it.
LastCellInRange ==
    LastCellUpdate /\ CellInRange(LastShape.rows, LastCell.row, LastCell.column)

CellBefore == LastShape.rows[LastCell.row + 1][LastCell.column + 1]

CellAfter == NowShape.rows[LastCell.row + 1][LastCell.column + 1]

\* No cell of the table but the entry's is changed by the last step.
OtherCellsUnchanged ==
    /\ Len(NowShape.rows) = Len(LastShape.rows)
    /\ \A r \in 1..Len(LastShape.rows) :
          /\ Len(NowShape.rows[r]) = Len(LastShape.rows[r])
          /\ \A k \in 1..Len(LastShape.rows[r]) :
                <<r, k>> # <<LastCell.row + 1, LastCell.column + 1>> =>
                    NowShape.rows[r][k] = LastShape.rows[r][k]

\* C12 as claimed: a table-cell update leaves the cell as single-paragraph
\* mode leaves a text frame: the first paragraph holds one run with the cell
\* text, the cell's other paragraphs are untouched, and no other cell of the
\* table is changed.
C12_CellAsSingleParagraphMode ==
    LastCellInRange =>
        /\ CellAfter = SimpleParagraphs(CellBefore, LastCell.text,
                                        CaptureFormatting(CellBefore))
        /\ Len(CellAfter) = Len(CellBefore)
        /\ \A k \in 2..Len(CellBefore) : CellAfter[k] = CellBefore[k]
        /\ OtherCellsUnchanged

\* C12 amended: a table-cell update rewrites the cell's first paragraph as
\* single-paragraph mode does (one run with the cell text and the captured
\* formatting, the paragraph's level and font kept) and removes the cell's
\* other paragraphs: the cell ends as the first paragraph of what
\* single-paragraph mode produces, alone; no other cell of the table is
\* changed.
C12_CellFirstParagraphOnly ==
    LastCellInRange =>
        /\ CellAfter = <<SimpleParagraphs(CellBefore, LastCell.text,
                                          CaptureFormatting(CellBefore))[1]>>
        /\ Len(CellAfter) = 1
        /\ Len(CellAfter[1].runs) = 1
        /\ CellAfter[1].runs[1].text = LastCell.text
        /\ CellAfter[1].level = CellBefore[1].level
        /\ OtherCellsUnchanged

\* C12's case: an entry was applied to a cell of two paragraphs, in a table
\* whose other cell has a run.
C12_Witness ==
    /\ LastCellInRange
    /\ Len(CellBefore) = 2
    /\ Applied = 1
    /\ \E k \in 1..Len(NowShape.rows[1]) :
          k # LastCell.column + 1 /\ NowShape.rows[1][k][1].runs # <<>>

\* The text region the last step captured the formatting of: the paragraphs
\* of the text shape, or of the table cell.
LastCaptured == LastTextUpdate \/ LastCellInRange

RegionBefore == IF LastTextUpdate THEN LastShape.paras ELSE CellBefore

\* The value of field f the first run sets, else the first paragraph's own.
RunThenParagraph(paras, f) ==
    IF paras[1].runs # <<>> /\ paras[1].runs[1].font[f] # None
    THEN paras[1].runs[1].font[f]
    ELSE paras[1].font[f]

\* C13: the formatting captured before an update resolves each of size,
\* typeface, bold, italic, underline and color on its own: the value the
\* first run of the first paragraph sets, else the first paragraph's own font
\* value of that field, else absent; in the shape path and in the table-cell
\* path; a region without paragraphs gives the empty snapshot.
C13_PerFieldFallback ==
    /\ CaptureFormatting(<<>>) = NoFont
    /\ LastCaptured =>
          \A f \in FontFields :
              CaptureFormatting(RegionBefore)[f] = RunThenParagraph(RegionBefore, f)

\* The last step met an instruction whose slide and shape index are in range.
LastResolved == Stepped /\ ShapeValid(pre.prs, last)

\* No shape of the document but the resolved one is changed by the last step.
OtherShapesUnchanged ==
    /\ Len(prs) = Len(pre.prs)
    /\ \A s \in 1..Len(pre.prs) :
          /\ Len(prs[s]) = Len(pre.prs[s])
          /\ \A k \in 1..Len(pre.prs[s]) :
                <<s, k>> # <<last.slide, last.shape>> => prs[s][k] = pre.prs[s][k]

\* C14: an instruction with in-range indices goes to the per-cell updates
\* exactly when its table_cells is not empty and the resolved shape is a
\* table: the step is then update_table_cell for one entry, counted or
\* reported as a cell, and the shape's text is not replaced. In every other
\* case (table_cells on a shape that is no table, a table without
\* table_cells) the step is update_shape_text on the resolved shape with the
\* instruction's text, counted or reported for the shape. In all cases no
\* other shape of the document is changed.
C14_Routing ==
    LastResolved =>
        LET fan_out == last.table_cells # <<>> /\ LastShape.kind = "table"
            cell_result == update_table_cell(LastShape.rows, LastCell.row,
                                             LastCell.column, LastCell.text)
            update_result == update_shape_text(LastShape, last.text,
                                               last.preserve_bullets)
            NewErrorKind(kind) ==
                NewErrors = 1 /\ results.errors[Len(results.errors)].kind = kind
        IN /\ fan_out =>
                 /\ NowShape = [LastShape EXCEPT !.rows = cell_result.rows]
                 /\ NowShape.paras = LastShape.paras
                 /\ IF cell_result.success
                    THEN Applied = 1 /\ NewErrors = 0
                    ELSE Applied = 0 /\ NewErrorKind("Cell")
                 /\ NewWarnings = 0
           /\ ~fan_out =>
                 /\ NowShape = update_result.shape
                 /\ NowShape.rows = LastShape.rows
                 /\ pre.cell_pos = 1 /\ cell_pos = 1
                 /\ IF update_result.raised
                    THEN Applied = 0 /\ NewErrors = 0 /\ status = "raised"
                    ELSE IF update_result.success
                    THEN Applied = 1 /\ NewErrors = 0
                    ELSE Applied = 0 /\ NewErrorKind("Shape")
           /\ OtherShapesUnchanged

\* C14's case: a batch of two on a slide with a text shape and a table: the
\* first instruction fanned out over the table, the second carried
\* table_cells to the text shape and replaced its text as a whole.
C14_Witness ==
    /\ Len(updates) = 2 /\ pos = 3 /\ pre.pos = 2
    /\ IsTableUpdate(prs, updates[1])
    /\ last.table_cells # <<>>
    /\ LastShape.kind = "text"
    /\ NowShape.paras[1].runs[1].text = last.text
    /\ NowShape.paras # LastShape.paras
    /\ results.updates_applied = 2

\* The work units of one instruction: one per entry of table_cells for a
\* table fan-out, one for any other instruction (a rejected index included).
Units(doc, u) == IF IsTableUpdate(doc, u) THEN Len(u.table_cells) ELSE 1

\* The work units of the first n instructions of the batch.
RECURSIVE UnitsUpTo(_, _, _)
UnitsUpTo(doc, batch, n) ==
    IF n = 0 THEN 0 ELSE UnitsUpTo(doc, batch, n - 1) + Units(doc, batch[n])

IsPrefix(old, new) ==
    Len(old) <= Len(new) /\ SubSeq(new, 1, Len(old)) = old

\* C15: at every point of the loop updates_applied + len(errors) is the
\* number of work units processed so far: the units of the instructions
\* before the one the loop is at, plus the entries of the current fan-out
\* already done. Each step that completes a unit adds exactly one, to
\* updates_applied or to errors, never to both; updates_applied never
\* decreases, errors and warnings only grow at their end. (An exception that
\* ends the run completes no unit: the loop position and the report stay as
\* they were.)
C15_Accounting ==
    /\ results.updates_applied + Len(results.errors) =
          UnitsUpTo(prs, updates, pos - 1) + (cell_pos - 1)
    /\ (Stepped /\ <<pos, cell_pos>> # <<pre.pos, pre.cell_pos>>) =>
          \/ Applied = 1 /\ NewErrors = 0
          \/ Applied = 0 /\ NewErrors = 1
    /\ (Stepped /\ <<pos, cell_pos>> = <<pre.pos, pre.cell_pos>>) =>
          status = "raised" /\ results = pre.results
    /\ results.updates_applied >= pre.results.updates_applied
    /\ IsPrefix(pre.results.errors, results.errors)
    /\ IsPrefix(pre.results.warnings, results.warnings)

\* C15's case: a batch of two that returned: a rejected slide number, then a
\* fan-out over two entries of which one failed: three units from two
\* instructions, one applied and two errors.
C15_Witness ==
    /\ status = "returned"
    /\ Len(updates) = 2
    /\ ~SlideValid(prs, updates[1]) /\ ~SlideMissing(updates[1])
    /\ IsTableUpdate(prs, updates[2]) /\ Len(updates[2].table_cells) = 2
    /\ results.updates_applied = 1
    /\ Len(results.errors) = 2

\* C16: whenever an instruction or a table-cell entry ends as an entry in
\* errors (a rejected slide or shape index, a shape without text frame, a
\* failed cell update), the document is exactly as it was before that
\* instruction or entry started; the targeted shape or cell keeps its text.
C16_FailureAtomic ==
    (Stepped /\ NewErrors = 1) =>
        /\ prs = pre.prs
        /\ LastCellInRange => FrameText(CellAfter) = FrameText(CellBefore)

==========================================================================
